---------------------------- MODULE Spec2Model ----------------------------
(***************************************************************************)
(* A model of pelagia.py: a folder of markdown files is discovered,        *)
(* ordered, rotated to a start file, and every file is passed through      *)
(* render_mermaid_blocks and add_ids_and_rewrite_links before the parts    *)
(* are joined and handed to pandoc.                                        *)
(*                                                                         *)
(* Strings are sequences of one-character strings, so that slugify, the    *)
(* path operations and the id formatting are computed character by         *)
(* character, as the code computes them.                                   *)
(***************************************************************************)
EXTENDS Integers, Sequences, FiniteSets, TLC

(***************************************************************************)
(* Characters                                                              *)
(***************************************************************************)
UpperCase == <<"A","B","C","D","E","F","G","H","I","J","K","L","M",
               "N","O","P","Q","R","S","T","U","V","W","X","Y","Z">>
LowerCase == <<"a","b","c","d","e","f","g","h","i","j","k","l","m",
               "n","o","p","q","r","s","t","u","v","w","x","y","z">>
Digits == <<"0","1","2","3","4","5","6","7","8","9">>

\* The characters of the model in code-point order (Python compares strings
\* by code point).
Ascii == <<"\t", " ", "\"", "#", "(", ")", "*", "+", "-", ".", "/">> \o Digits
           \o <<":", "<", ">", "@">> \o UpperCase
           \o <<"[", "\\", "]", "_">> \o LowerCase \o <<"{", "}", "~">>

Range(s) == {s[i] : i \in 1..Len(s)}

Ord(c) == CHOOSE i \in 1..Len(Ascii) : Ascii[i] = c

\* str.lower() on one character
LowerChar(c) ==
    IF c \in Range(UpperCase)
    THEN LowerCase[CHOOSE i \in 1..26 : UpperCase[i] = c]
    ELSE c

\* str.lower()
ToLower(s) == [i \in 1..Len(s) |-> LowerChar(s[i])]

IsSpace(c) == c \in {" ", "\t"}
IsLetter(c) == c \in Range(UpperCase) \cup Range(LowerCase)
IsDigit(c) == c \in Range(Digits)

\* str.strip()
RECURSIVE LStrip(_)
LStrip(s) == IF s # <<>> /\ IsSpace(Head(s)) THEN LStrip(Tail(s)) ELSE s
RECURSIVE RStrip(_)
RStrip(s) ==
    IF s # <<>> /\ IsSpace(s[Len(s)]) THEN RStrip(SubSeq(s, 1, Len(s) - 1)) ELSE s
Strip(s) == RStrip(LStrip(s))

\* s.startswith(p), s.endswith(p), p in s
StartsWith(s, p) == Len(p) <= Len(s) /\ SubSeq(s, 1, Len(p)) = p
EndsWith(s, p) == Len(p) <= Len(s) /\ SubSeq(s, Len(s) - Len(p) + 1, Len(s)) = p
Contains(s, p) == \E i \in 1..(Len(s) - Len(p) + 1) : SubSeq(s, i, i + Len(p) - 1) = p

\* str(n) for a natural number
RECURSIVE Str(_)
Str(n) == IF n < 10 THEN <<Digits[n + 1]>> ELSE Str(n \div 10) \o <<Digits[(n % 10) + 1]>>

\* s.replace(a, b) for single characters
ReplaceChar(s, a, b) == [i \in 1..Len(s) |-> IF s[i] = a THEN b ELSE s[i]]

(***************************************************************************)
(* slugify                                                                 *)
(***************************************************************************)
\* re.sub(r"<[^>]+>", "", s): leftmost non-overlapping matches of "<", one or
\* more characters other than ">", then ">".
RECURSIVE StripTags(_)
StripTags(s) ==
    IF s = <<>> THEN <<>>
    ELSE IF Head(s) = "<" /\ \E j \in 3..Len(s) : s[j] = ">" /\ s[2] # ">"
         THEN LET j == CHOOSE k \in 3..Len(s) :
                           s[k] = ">" /\ \A m \in 2..(k - 1) : s[m] # ">"
              IN  StripTags(SubSeq(s, j + 1, Len(s)))
         ELSE <<Head(s)>> \o StripTags(Tail(s))

\* the characters re.sub(r"[...*_~]", "", s) removes (the backquote, which a
\* TLA+ string cannot hold, is not in the alphabet of the model)
IsMarkup(c) == c \in {"*", "_", "~"}
IsSlugChar(c) == c \in Range(LowerCase) \/ IsDigit(c) \/ IsSpace(c) \/ c = "-"
IsDash(c) == IsSpace(c) \/ c = "-"

\* re.sub(r"[\s\-]+", "-", s)
RECURSIVE CollapseDashes(_)
CollapseDashes(s) ==
    IF s = <<>> THEN <<>>
    ELSE IF IsDash(Head(s))
         THEN IF Len(s) > 1 /\ IsDash(s[2])
              THEN CollapseDashes(Tail(s))
              ELSE <<"-">> \o CollapseDashes(Tail(s))
         ELSE <<Head(s)>> \o CollapseDashes(Tail(s))

\* s.strip("-")
RECURSIVE StripDashes(_)
StripDashes(s) ==
    IF s # <<>> /\ Head(s) = "-" THEN StripDashes(Tail(s))
    ELSE IF s # <<>> /\ s[Len(s)] = "-" THEN StripDashes(SubSeq(s, 1, Len(s) - 1))
    ELSE s

NotMarkup(c) == ~IsMarkup(c)

slugify(s) ==
    LET s1 == ToLower(Strip(s))
        s2 == StripTags(s1)
        s3 == SelectSeq(s2, NotMarkup)
        s4 == SelectSeq(s3, IsSlugChar)
        s5 == StripDashes(CollapseDashes(s4))
    IN  IF s5 = <<>> THEN <<"s","e","c","t","i","o","n">> ELSE s5

(***************************************************************************)
(* Paths.  The folder is /w/docs; there are no symbolic links, so           *)
(* Path.resolve() is the lexical normalisation of an absolute path.        *)
(***************************************************************************)
S_md == <<".", "m", "d">>
S_markdown == <<".", "m", "a", "r", "k", "d", "o", "w", "n">>
S_docs == <<"d", "o", "c", "s">>
DotDot == <<".", ".">>

\* the components of folder.resolve()
folder_root == <<<<"w">>, S_docs>>

\* Path.name
folder_name == folder_root[Len(folder_root)]

\* lookups that find nothing give None, which is falsy like the empty string
None == <<>>

RECURSIVE SplitOn(_, _)
SplitOn(s, sep) ==
    IF sep \notin Range(s) THEN <<s>>
    ELSE LET i == CHOOSE k \in 1..Len(s) : s[k] = sep /\ \A m \in 1..(k - 1) : s[m] # sep
         IN  <<SubSeq(s, 1, i - 1)>> \o SplitOn(SubSeq(s, i + 1, Len(s)), sep)

IsRealPart(c) == c # <<>> /\ c # <<".">>

\* PurePosixPath(s).parts without the root: empty and "." components collapse
PathParts(s) == SelectSeq(SplitOn(s, "/"), IsRealPart)

\* Path(s).is_absolute()
IsAbsolute(s) == s # <<>> /\ s[1] = "/"

\* Path(s).name
PathName(s) == LET ps == PathParts(s) IN IF ps = <<>> THEN <<>> ELSE ps[Len(ps)]

\* Path(s).parent, as components
ParentParts(s) == LET ps == PathParts(s) IN SubSeq(ps, 1, Len(ps) - 1)

RECURSIVE JoinWith(_, _)
JoinWith(parts, sep) ==
    IF parts = <<>> THEN <<>>
    ELSE IF Len(parts) = 1 THEN parts[1]
    ELSE parts[1] \o <<sep>> \o JoinWith(Tail(parts), sep)

\* PurePath.as_posix() of a relative path given by its components
AsPosix(parts) == IF parts = <<>> THEN <<".">> ELSE JoinWith(parts, "/")

\* Path.resolve() on the components of an absolute path
RECURSIVE ResolveParts(_, _)
ResolveParts(acc, rest) ==
    IF rest = <<>> THEN acc
    ELSE IF Head(rest) = DotDot
         THEN ResolveParts(SubSeq(acc, 1, Len(acc) - 1), Tail(rest))
         ELSE ResolveParts(Append(acc, Head(rest)), Tail(rest))

\* ResolvedRel with the path joined to the folder instead of to the parent of
\* the current file
ResolvedRelFromRoot(current_file, path_part) ==
    LET resolved == ResolveParts(<<>>, folder_root \o PathParts(path_part))
        n == Len(folder_root)
    IN  IF Len(resolved) >= n /\ SubSeq(resolved, 1, n) = folder_root
        THEN AsPosix(SubSeq(resolved, n + 1, Len(resolved)))
        ELSE None

\* (current_file.parent / path_part).resolve().relative_to(folder_root.resolve())
\* .as_posix(); None stands for the ValueError of a path outside the folder
ResolvedRel(current_file, path_part) ==
    LET resolved == ResolveParts(<<>>, folder_root \o ParentParts(current_file)
                                         \o PathParts(path_part))
        n == Len(folder_root)
    IN  IF Len(resolved) >= n /\ SubSeq(resolved, 1, n) = folder_root
        THEN AsPosix(SubSeq(resolved, n + 1, Len(resolved)))
        ELSE None

(***************************************************************************)
(* Document slugs                                                          *)
(***************************************************************************)
\* hashlib.sha1(rel.encode("utf-8")).hexdigest()[:8] of the paths of the model
Sha1Hex8 ==
    (<<"a", ".", "m", "d">> :> <<"5", "d", "4", "8", "a", "7", "9", "a">>)
 @@ (<<"b", ".", "m", "d">> :> <<"b", "b", "8", "0", "1", "c", "b", "4">>)
 @@ (<<"B", ".", "m", "d">> :> <<"e", "2", "1", "7", "9", "a", "7", "c">>)
 @@ (<<"c", ".", "m", "a", "r", "k", "d", "o", "w", "n">>
        :> <<"1", "8", "f", "b", "0", "4", "e", "4">>)
 @@ (<<"x", "/", "a", ".", "m", "d">> :> <<"3", "7", "d", "d", "5", "f", "6", "4">>)
 @@ (<<"x", "/", "b", ".", "m", "d">> :> <<"a", "e", "f", "a", "b", "d", "1", "3">>)
 @@ (<<"X", "/", "b", ".", "m", "d">> :> <<"3", "4", "f", "a", "7", "2", "7", "e">>)
 @@ (<<"y", "/", "b", ".", "m", "d">> :> <<"f", "d", "e", "f", "9", "7", "b", "6">>)
 @@ (<<"d", "o", "c", "s", "/", "b", ".", "m", "d">>
        :> <<"0", "0", "e", "b", "2", "1", "4", "6">>)
 @@ (<<"x", "/", "d", "o", "c", "s", "/", "b", ".", "m", "d">>
        :> <<"5", "1", "2", "4", "f", "4", "4", "5">>)

safe_file_slug(rel) ==
    slugify(ReplaceChar(rel, "/", " ")) \o <<"-">> \o Sha1Hex8[rel]

\* dict.get
Get(table, key) == IF key \in DOMAIN table THEN table[key] ELSE None

(***************************************************************************)
(* Link targets                                                            *)
(***************************************************************************)
split_link_target(target) ==
    IF "#" \in Range(target)
    THEN LET i == CHOOSE k \in 1..Len(target) :
                     target[k] = "#" /\ \A m \in 1..(k - 1) : target[m] # "#"
         IN  <<SubSeq(target, 1, i - 1), SubSeq(target, i + 1, Len(target))>>
    ELSE <<target, <<>>>>

IsSchemeChar(c) == IsLetter(c) \/ IsDigit(c) \/ c \in {"+", "-", "."}

looks_like_url(s) ==
    \/ /\ s # <<>>
       /\ IsLetter(s[1])
       /\ \E k \in 1..(Len(s) - 3) :
             /\ \A m \in 2..k : IsSchemeChar(s[m])
             /\ SubSeq(s, k + 1, k + 3) = <<":", "/", "/">>
    \/ StartsWith(s, <<"m", "a", "i", "l", "t", "o", ":">>)

\* 1. Direct match (path is already relative to folder root)
Strategy1(table, normalized) == Get(table, normalized)

\* 2. Resolving relative to the current file
Strategy2(table, current_file, path_part) ==
    IF IsAbsolute(path_part) THEN None
    ELSE Get(table, ResolvedRel(current_file, path_part))

\* Strategy3 with any first component removed, whatever its name
Strategy3AnyPrefix(table, normalized) ==
    IF "/" \in Range(normalized)
    THEN Get(table, JoinWith(Tail(SplitOn(normalized, "/")), "/"))
    ELSE None

\* 3. With the folder name prefix removed
Strategy3(table, normalized) ==
    IF StartsWith(normalized, folder_name \o <<"/">>)
    THEN Get(table, SubSeq(normalized, Len(folder_name) + 2, Len(normalized)))
    ELSE None

\* Strategy4 without the check that one file alone has the filename
Strategy4FirstMatch(table, normalized) ==
    IF "/" \in Range(normalized)
    THEN LET filename == PathName(normalized)
             matching_files == {rel \in DOMAIN table : PathName(rel) = filename}
         IN  IF matching_files # {}
             THEN Get(table, CHOOSE rel \in matching_files : TRUE)
             ELSE None
    ELSE None

\* 4. Just the filename if the path has slashes
Strategy4(table, normalized) ==
    IF "/" \in Range(normalized)
    THEN LET filename == PathName(normalized)
             matching_files == {rel \in DOMAIN table : PathName(rel) = filename}
         IN  IF Cardinality(matching_files) = 1
             THEN Get(table, CHOOSE rel \in matching_files : TRUE)
             ELSE None
    ELSE None

\* ResolveLink with the path relative to the current file tried before the
\* direct match
ResolveLinkRelativeFirst(table, current_file, path_part) ==
    LET normalized == ReplaceChar(path_part, "\\", "/")
        l1 == Strategy2(table, current_file, path_part)
        l2 == IF l1 = None THEN Strategy1(table, normalized) ELSE l1
        l3 == IF l2 = None THEN Strategy3(table, normalized) ELSE l2
        l4 == IF l3 = None THEN Strategy4(table, normalized) ELSE l3
    IN  l4

\* lines 231-274: the strategies in order, each tried only while linked_slug
\* is still empty
ResolveLink(table, current_file, path_part) ==
    LET normalized == ReplaceChar(path_part, "\\", "/")
        l1 == Strategy1(table, normalized)
        l2 == IF l1 = None THEN Strategy2(table, current_file, path_part) ELSE l1
        l3 == IF l2 = None THEN Strategy3(table, normalized) ELSE l2
        l4 == IF l3 = None THEN Strategy4(table, normalized) ELSE l3
    IN  l4

\* NewTarget with the fragment appended as written, not slugified
NewTargetRawFragment(raw, table, current_file) ==
    LET target == Strip(raw)
        sp == split_link_target(target)
        path_part == Strip(sp[1])
        frag == sp[2]
    IN  IF looks_like_url(target) THEN raw
        ELSE IF path_part = <<>> \/ StartsWith(path_part, <<"#">>) THEN raw
        ELSE IF ~(\/ EndsWith(ToLower(path_part), S_md)
                  \/ EndsWith(ToLower(path_part), S_markdown)) THEN raw
        ELSE LET linked_slug == ResolveLink(table, current_file, path_part)
             IN  IF linked_slug # None
                 THEN IF frag # <<>>
                      THEN <<"#">> \o linked_slug \o <<"-">> \o frag
                      ELSE <<"#">> \o linked_slug
                 ELSE raw

\* repl: the text between the parentheses of a link after rewriting; raw is
\* match.group(2)
NewTarget(raw, table, current_file) ==
    LET target == Strip(raw)
        sp == split_link_target(target)
        path_part == Strip(sp[1])
        frag == sp[2]
    IN  IF looks_like_url(target) THEN raw
        ELSE IF path_part = <<>> \/ StartsWith(path_part, <<"#">>) THEN raw
        ELSE IF ~(\/ EndsWith(ToLower(path_part), S_md)
                  \/ EndsWith(ToLower(path_part), S_markdown)) THEN raw
        ELSE LET linked_slug == ResolveLink(table, current_file, path_part)
             IN  IF linked_slug # None
                 THEN IF frag # <<>>
                      THEN <<"#">> \o linked_slug \o <<"-">> \o slugify(frag)
                      ELSE <<"#">> \o linked_slug
                 ELSE raw

\* MD_LINK_RE matches at the head of s: "[", a label without "]", "](", a
\* target without ")", ")".  The result is <<end of label, end of target>>,
\* or <<>> when there is no match.
LinkMatch(s) ==
    IF s # <<>> /\ s[1] = "[" /\ "]" \in Range(s)
    THEN LET c == CHOOSE k \in 1..Len(s) : s[k] = "]" /\ \A m \in 1..(k - 1) : s[m] # "]"
         IN  IF c >= 3 /\ c < Len(s) /\ s[c + 1] = "("
                /\ \E t \in (c + 2)..Len(s) : s[t] = ")"
             THEN LET t == CHOOSE k \in (c + 2)..Len(s) :
                              s[k] = ")" /\ \A m \in (c + 2)..(k - 1) : s[m] # ")"
                  IN  IF t >= c + 3 THEN <<c, t>> ELSE <<>>
             ELSE <<>>
    ELSE <<>>

\* MD_LINK_RE.sub(repl, text) on one line
RECURSIVE rewrite_links(_, _, _)
rewrite_links(s, table, current_file) ==
    IF s = <<>> THEN <<>>
    ELSE LET m == LinkMatch(s)
         IN  IF m = <<>>
             THEN <<Head(s)>> \o rewrite_links(Tail(s), table, current_file)
             ELSE SubSeq(s, 1, m[1] + 1)
                  \o NewTarget(SubSeq(s, m[1] + 2, m[2] - 1), table, current_file)
                  \o <<")">>
                  \o rewrite_links(SubSeq(s, m[2] + 1, Len(s)), table, current_file)

(***************************************************************************)
(* Lines.  A text is the sequence of its lines and a line the sequence of   *)
(* its characters.  A TLA+ string cannot hold a backquote, so the three    *)
(* backquotes of a code fence are one element of the line, Fence3.         *)
(***************************************************************************)
Fence3 == "FENCE"

S_mermaid == <<"m", "e", "r", "m", "a", "i", "d">>

\* MERMAID_FENCE_RE.match(line): the fence, "mermaid" in any case, whitespace
IsMermaidFence(line) ==
    line # <<>> /\ line[1] = Fence3 /\ ToLower(RStrip(Tail(line))) = S_mermaid

\* FENCE_END_RE.match(line): the fence and whitespace
IsFenceEnd(line) == line # <<>> /\ line[1] = Fence3 /\ RStrip(Tail(line)) = <<>>

\* the lines of the model
P1 == <<"A", "-", "-", ">", "B">>
P2 == <<"h", "i">>
FenceOpen == <<Fence3>> \o S_mermaid
FenceEnd == <<Fence3>>

\* hashlib.sha1(mermaid_src.encode("utf-8")).hexdigest()[:12] of the blocks the
\* model's lines can form, keyed by the block's lines (1: P1, 2: P2,
\* 3: FenceOpen); mermaid_src is the block after the repairs of lines 86-128
LineCode(line) == IF line = P1 THEN 1 ELSE IF line = P2 THEN 2 ELSE 3
MermaidDigest ==
    (<<>> :> <<"a", "d", "c", "8", "3", "b", "1", "9", "e", "7", "9", "3">>)
 @@ (<<1>> :> <<"f", "e", "7", "2", "f", "c", "c", "b", "a", "6", "c", "d">>)
 @@ (<<2>> :> <<"5", "5", "c", "a", "6", "2", "8", "6", "e", "3", "e", "4">>)
 @@ (<<3>> :> <<"2", "f", "6", "6", "6", "5", "0", "1", "e", "a", "9", "e">>)
 @@ (<<1, 1>> :> <<"9", "3", "f", "5", "9", "a", "5", "c", "2", "b", "1", "d">>)
 @@ (<<1, 2>> :> <<"2", "5", "5", "3", "3", "2", "f", "b", "d", "a", "e", "5">>)
 @@ (<<1, 3>> :> <<"6", "3", "5", "1", "7", "4", "f", "4", "f", "c", "d", "f">>)
 @@ (<<2, 1>> :> <<"e", "c", "e", "c", "6", "7", "6", "4", "4", "6", "7", "5">>)
 @@ (<<2, 2>> :> <<"4", "3", "0", "2", "6", "c", "8", "b", "e", "a", "0", "f">>)
 @@ (<<2, 3>> :> <<"c", "e", "1", "c", "5", "8", "0", "f", "c", "f", "a", "d">>)
 @@ (<<3, 1>> :> <<"4", "3", "8", "8", "4", "4", "2", "2", "0", "e", "c", "8">>)
 @@ (<<3, 2>> :> <<"1", "b", "2", "9", "f", "9", "d", "4", "c", "b", "0", "e">>)
 @@ (<<3, 3>> :> <<"b", "0", "1", "0", "7", "4", "6", "e", "b", "d", "1", "b">>)
 @@ (<<1, 1, 1>> :> <<"2", "8", "d", "d", "a", "d", "5", "5", "c", "4", "5", "b">>)
 @@ (<<1, 1, 2>> :> <<"6", "a", "6", "d", "d", "4", "1", "e", "a", "f", "c", "4">>)
 @@ (<<1, 1, 3>> :> <<"7", "8", "c", "c", "e", "0", "6", "8", "e", "4", "8", "6">>)
 @@ (<<1, 2, 1>> :> <<"1", "b", "e", "b", "8", "5", "6", "9", "7", "f", "e", "2">>)
 @@ (<<1, 2, 2>> :> <<"8", "0", "f", "4", "6", "7", "5", "0", "7", "1", "e", "1">>)
 @@ (<<1, 2, 3>> :> <<"b", "b", "8", "6", "e", "2", "c", "6", "c", "5", "c", "f">>)
 @@ (<<1, 3, 1>> :> <<"8", "c", "3", "f", "6", "3", "f", "b", "7", "4", "c", "a">>)
 @@ (<<1, 3, 2>> :> <<"4", "a", "e", "5", "c", "a", "1", "3", "7", "e", "8", "6">>)
 @@ (<<1, 3, 3>> :> <<"0", "3", "f", "9", "3", "3", "e", "d", "c", "8", "f", "0">>)
 @@ (<<2, 1, 1>> :> <<"c", "0", "1", "b", "1", "0", "6", "f", "d", "9", "2", "0">>)
 @@ (<<2, 1, 2>> :> <<"f", "b", "a", "7", "9", "c", "9", "c", "8", "c", "b", "3">>)
 @@ (<<2, 1, 3>> :> <<"2", "c", "0", "a", "3", "f", "2", "2", "1", "f", "7", "f">>)
 @@ (<<2, 2, 1>> :> <<"2", "5", "e", "9", "0", "e", "7", "1", "2", "d", "3", "6">>)
 @@ (<<2, 2, 2>> :> <<"4", "e", "a", "c", "b", "c", "0", "a", "9", "a", "2", "1">>)
 @@ (<<2, 2, 3>> :> <<"f", "5", "0", "4", "8", "6", "0", "4", "1", "a", "2", "3">>)
 @@ (<<2, 3, 1>> :> <<"1", "a", "2", "8", "4", "5", "a", "b", "f", "9", "f", "5">>)
 @@ (<<2, 3, 2>> :> <<"d", "8", "b", "f", "c", "5", "8", "f", "7", "8", "0", "8">>)
 @@ (<<2, 3, 3>> :> <<"7", "1", "6", "d", "4", "4", "8", "c", "3", "e", "b", "b">>)
 @@ (<<3, 1, 1>> :> <<"9", "e", "3", "0", "8", "d", "a", "7", "0", "7", "6", "8">>)
 @@ (<<3, 1, 2>> :> <<"8", "f", "9", "f", "1", "1", "9", "3", "d", "0", "2", "f">>)
 @@ (<<3, 1, 3>> :> <<"5", "e", "5", "d", "2", "8", "f", "3", "1", "2", "e", "d">>)
 @@ (<<3, 2, 1>> :> <<"6", "a", "1", "9", "3", "c", "7", "8", "6", "b", "3", "f">>)
 @@ (<<3, 2, 2>> :> <<"b", "f", "c", "5", "b", "0", "2", "0", "2", "c", "b", "d">>)
 @@ (<<3, 2, 3>> :> <<"0", "6", "8", "e", "b", "6", "1", "b", "1", "2", "1", "a">>)
 @@ (<<3, 3, 1>> :> <<"3", "f", "5", "f", "f", "f", "4", "5", "0", "a", "1", "8">>)
 @@ (<<3, 3, 2>> :> <<"a", "5", "7", "6", "f", "1", "8", "5", "5", "7", "d", "f">>)
 @@ (<<3, 3, 3>> :> <<"3", "2", "3", "d", "2", "2", "6", "d", "7", "7", "0", "f">>)

mermaid_hash(block) == MermaidDigest[[k \in 1..Len(block) |-> LineCode(block[k])]]

\* the temporary diagrams directory, as_posix
diagrams_dir == <<"/", "t", "/", "d", "i", "a", "g", "r", "a", "m", "s">>

\* f"mermaid-{diagram_key_prefix}-{mermaid_idx}-{mermaid_hash}"
ArtifactStem(diagram_key_prefix, mermaid_idx, hash) ==
    S_mermaid \o <<"-">> \o diagram_key_prefix \o <<"-">> \o Str(mermaid_idx)
        \o <<"-">> \o hash

\* f"![]({out_png.as_posix()})"
ImageLine(stem) ==
    <<"!", "[", "]", "(">> \o diagrams_dir \o <<"/">> \o stem
        \o <<".", "p", "n", "g", ")">>

\* "*[Mermaid diagram could not be rendered - check syntax]*"
Placeholder ==
    <<"*", "[", "M", "e", "r", "m", "a", "i", "d", " ", "d", "i", "a", "g", "r",
      "a", "m", " ", "c", "o", "u", "l", "d", " ", "n", "o", "t", " ", "b", "e",
      " ", "r", "e", "n", "d", "e", "r", "e", "d", " ", "-", " ", "c", "h", "e",
      "c", "k", " ", "s", "y", "n", "t", "a", "x", "]", "*">>

\* the index (from 1) of the first closing fence after line i (from 1) of
\* lines, or 0: the inner while loop of lines 79-81
ClosingFence(lines, i) ==
    IF \E j \in (i + 1)..Len(lines) : IsFenceEnd(lines[j])
    THEN CHOOSE j \in (i + 1)..Len(lines) :
            IsFenceEnd(lines[j]) /\ \A m \in (i + 1)..(j - 1) : ~IsFenceEnd(lines[m])
    ELSE 0

(***************************************************************************)
(* Headings                                                                *)
(***************************************************************************)
RECURSIVE LeadingHashes(_)
LeadingHashes(line) ==
    IF line # <<>> /\ Head(line) = "#" THEN 1 + LeadingHashes(Tail(line)) ELSE 0

\* ATX_HEADING_RE.match(line): <<number of hashes, title>>, or <<>>.  The
\* title is lazy and the whitespace before it greedy, so a heading of
\* whitespace alone has its last whitespace character as the title.
HeadingMatch(line) ==
    LET h == LeadingHashes(line)
        after == SubSeq(line, h + 1, Len(line))
        rest == LStrip(after)
    IN  IF h \in 1..6 /\ after # <<>> /\ IsSpace(after[1])
        THEN IF rest # <<>> THEN <<h, RStrip(rest)>>
             ELSE IF Len(after) >= 2 THEN <<h, <<after[Len(after)]>>>>
             ELSE <<>>
        ELSE <<>>

\* make_unique_id: the id for base when heading_counts[base] is already counts
make_unique_id(base, n) == IF n = 1 THEN base ELSE base \o <<"-">> \o Str(n)

\* the heading loop of lines 293-294 with rewrite_heading_line: the rewritten
\* lines and the ids assigned, in order
RECURSIVE HeadingPass(_, _, _)
HeadingPass(lines, file_slug, heading_counts) ==
    IF lines = <<>> THEN [out |-> <<>>, ids |-> <<>>]
    ELSE LET line == Head(lines)
             m == HeadingMatch(line)
         IN  IF m = <<>> \/ Contains(m[2], <<"{", "#">>)
             THEN LET r == HeadingPass(Tail(lines), file_slug, heading_counts)
                  IN  [out |-> <<line>> \o r.out, ids |-> r.ids]
             ELSE LET clean_title == Strip(m[2])
                      base == file_slug \o <<"-">> \o slugify(clean_title)
                      cnt == (IF base \in DOMAIN heading_counts
                              THEN heading_counts[base] ELSE 0) + 1
                      hid == make_unique_id(base, cnt)
                      r == HeadingPass(Tail(lines), file_slug,
                                       (base :> cnt) @@ heading_counts)
                  IN  [out |-> <<SubSeq(line, 1, m[1]) \o <<" ">> \o clean_title
                                   \o <<" ", "{", "#">> \o hid \o <<"}">>>> \o r.out,
                       ids |-> <<hid>> \o r.ids]

\* f"[]{{#{file_slug}}}"
AnchorLine(file_slug) == <<"[", "]", "{", "#">> \o file_slug \o <<"}">>

\* md_text.splitlines() of the text render_mermaid_blocks returns,
\* "\n".join(out_lines) + "\n": no lines at all come back as one empty line
SplitLines(out) == IF out = <<>> THEN <<<<>>>> ELSE out

add_ids_and_rewrite_links(md_lines, file_slug, table, current_file) ==
    LET out == <<AnchorLine(file_slug), <<>>>>
                   \o HeadingPass(md_lines, file_slug, <<>>).out
    IN  [k \in 1..Len(out) |-> rewrite_links(out[k], table, current_file)]

\* the anchor ids add_ids_and_rewrite_links emits
EmittedIds(md_lines, file_slug) ==
    <<file_slug>> \o HeadingPass(md_lines, file_slug, <<>>).ids

(***************************************************************************)
(* Discovery and order                                                     *)
(***************************************************************************)
\* str < str: comparison by code point
RECURSIVE LexLess(_, _)
LexLess(s, t) ==
    IF t = <<>> THEN FALSE
    ELSE IF s = <<>> THEN TRUE
    ELSE IF Head(s) = Head(t) THEN LexLess(Tail(s), Tail(t))
    ELSE Ord(Head(s)) < Ord(Head(t))

\* p.as_posix() of the file found at rel under the folder
AbsPosix(rel) == <<"/">> \o JoinWith(folder_root, "/") \o <<"/">> \o rel

\* the sort key of find_all_markdowns
SortKey(rel) == ToLower(AbsPosix(rel))

\* find_all_markdowns: sorted() is stable and rglob's order is the file
\* system's, so files with equal keys come in either order
find_all_markdowns(fs) ==
    {q \in [1..Cardinality(fs) -> fs] :
        /\ \A a, b \in 1..Cardinality(fs) : a # b => q[a] # q[b]
        /\ \A a \in 1..(Cardinality(fs) - 1) : ~LexLess(SortKey(q[a + 1]), SortKey(q[a]))}

\* rotate_start moving the start file to the front and leaving the others
\* where they are
rotate_start_to_front(fl, start_path) ==
    <<start_path>> \o SelectSeq(fl, LAMBDA f : f # start_path)

\* rotate_start when start is among the files
rotate_start(fl, start_path) ==
    LET k == CHOOSE j \in 1..Len(fl) :
                 fl[j] = start_path /\ \A m \in 1..(j - 1) : fl[m] # start_path
    IN  SubSeq(fl, k, Len(fl)) \o SubSeq(fl, 1, k - 1)

\* "\n```{=latex}\n\\newpage\n```\n"
PageBreak ==
    << <<>>, <<Fence3, "{", "=", "l", "a", "t", "e", "x", "}">>,
       <<"\\", "n", "e", "w", "p", "a", "g", "e">>, <<Fence3>> >>

\* "\n".join(parts): every part ends with a newline, so the join leaves an
\* empty line after each part but the last
RECURSIVE JoinParts(_)
JoinParts(ps) ==
    IF ps = <<>> THEN <<>>
    ELSE IF Len(ps) = 1 THEN ps[1]
    ELSE ps[1] \o << <<>> >> \o JoinParts(Tail(ps))

(***************************************************************************)
(* The inputs of a run                                                     *)
(***************************************************************************)
MaxDocs == 3
MaxLines == 4
MaxHeadings == 3
MaxLinkDocs == 3

A_md == <<"a", ".", "m", "d">>
B_md == <<"b", ".", "m", "d">>
BigB_md == <<"B", ".", "m", "d">>
C_markdown == <<"c">> \o S_markdown
XA_md == <<"x", "/">> \o A_md
XB_md == <<"x", "/">> \o B_md
BigXB_md == <<"X", "/">> \o B_md
DocsB_md == S_docs \o <<"/">> \o B_md
XDocsB_md == <<"x", "/">> \o DocsB_md

\* a --start that names no file, and one that names a markdown file outside
\* the folder
Missing == <<"n", "o", ".", "m", "d">>
Outside == <<"/", "o", "/", "o", ".", "m", "d">>

BoundedSeqs(S, n) == UNION {[1..k -> S] : k \in 0..n}

H_Setup == <<"#", " ", "S", "e", "t", "u", "p">>
H_Setup2 == <<"#", "#", " ", "S", "e", "t", "u", "p", " ", "2">>
H_Intro == <<"#", " ", "I", "n", "t", "r", "o">>
H_Explicit == <<"#", " ", "S", "e", "t", "u", "p", " ", "{", "#", "s", "}">>

AssemblyPaths == {A_md, B_md, BigB_md, C_markdown, XA_md, BigXB_md}
AssemblyTexts == {<<P1>>, <<P2, FenceOpen, P1>>}
MermaidLines == {P1, P2, FenceOpen, FenceEnd}
HeadingLines == {H_Setup, H_Setup2, H_Explicit, P1}
LinkPaths == {A_md, B_md, XA_md, XB_md, DocsB_md, XDocsB_md}

S_Intro == <<"#", "I", "n", "t", "r", "o">>

\* os.path.relpath(b, dirname(a)) for two files of the folder
RelPath(b, a) ==
    LET da == ParentParts(a)
        pb == PathParts(b)
        c == CHOOSE k \in 0..Len(da) :
                 /\ k < Len(pb)
                 /\ SubSeq(da, 1, k) = SubSeq(pb, 1, k)
                 /\ \A m \in (k + 1)..Len(da) :
                       ~(m < Len(pb) /\ SubSeq(da, 1, m) = SubSeq(pb, 1, m))
    IN  JoinWith([k \in 1..(Len(da) - c) |-> DotDot] \o SubSeq(pb, c + 1, Len(pb)), "/")

\* the ways a link in file a may name file b
LinkForms(b, a) ==
    { b, RelPath(b, a), folder_name \o <<"/">> \o b, PathName(b),
      <<"z", "/">> \o PathName(b), ReplaceChar(b, "/", "\\"),
      b \o S_Intro, RelPath(b, a) \o S_Intro }

OtherTargets ==
    { <<"h", "t", "t", "p", ":", "/", "/", "e", "/">> \o A_md,
      <<"m", "a", "i", "l", "t", "o", ":">> \o A_md,
      <<"a", ".", "t", "x", "t">>,
      S_Intro,
      <<" ">> \o B_md \o <<" ">>,
      <<"/", "w", "/">> \o DocsB_md,
      <<".", ".", "/">> \o DocsB_md }

LinkLine(target) == <<"[", "s", "e", "e", "]", "(">> \o target \o <<")">>

(***************************************************************************)
(* The state of a run of main                                              *)
(***************************************************************************)
VARIABLES
    files,                \* the markdown files under the folder, by relative path
    content,              \* the lines of each file
    start,                \* --start
    pc,                   \* where main is
    exit_code,            \* the exit status once the process has ended, else -1
    stderr,               \* the diagnostic die printed, or None
    md_files,             \* main's md_files
    file_slug_by_md_rel,  \* main's slug table
    idx,                  \* the loop index of line 389, from 1
    lines, i, mermaid_idx, out_lines,   \* the locals of render_mermaid_blocks
    mmdc_runs,            \* the mmdc runs so far: file, ordinal, stem, outcome
    parts,                \* main's parts
    anchors,              \* the anchor ids written into parts so far
    combined_md,          \* the lines of combined.md once written, else None
    pandoc_runs           \* how often pandoc was run

vars == <<files, content, start, pc, exit_code, stderr, md_files,
          file_slug_by_md_rel, idx, lines, i, mermaid_idx, out_lines,
          mmdc_runs, parts, anchors, combined_md, pandoc_runs>>

inputs == <<files, content, start>>
scan == <<lines, i, mermaid_idx, out_lines>>

\* a folder of up to MaxDocs files, each short, some with an open diagram
InitAssembly ==
    /\ files \in {fs \in SUBSET AssemblyPaths : Cardinality(fs) <= MaxDocs}
    /\ content \in [files -> AssemblyTexts]
    /\ start \in files \cup {Missing, Outside}

\* two files, one of them any text of up to MaxLines lines and fences
InitMermaid ==
    /\ files = {A_md, B_md}
    /\ \E t \in BoundedSeqs(MermaidLines, MaxLines) :
          content = (A_md :> t) @@ (B_md :> <<P1>>)
    /\ start \in files

\* two files, one of them any sequence of up to MaxHeadings headings
InitHeadings ==
    /\ files = {A_md, XA_md}
    /\ \E t \in BoundedSeqs(HeadingLines, MaxHeadings) :
          content = (A_md :> t) @@ (XA_md :> <<H_Setup>>)
    /\ start = A_md

\* up to MaxLinkDocs files, one of them, at the root or in a directory, a
\* link, the others a heading
InitLinks ==
    /\ files \in {fs \in SUBSET LinkPaths : fs # {} /\ Cardinality(fs) <= MaxLinkDocs}
    /\ \E a \in files \cap {A_md, XA_md} :
          \E target \in OtherTargets \cup UNION {LinkForms(b, a) : b \in files} :
             content = [f \in files |->
                          IF f = a THEN <<LinkLine(target)>>
                                   ELSE <<H_Intro, H_Intro>>]
    /\ start \in files

Init ==
    /\ InitAssembly \/ InitMermaid \/ InitHeadings \/ InitLinks
    /\ pc = "start"
    /\ exit_code = -1
    /\ stderr = None
    /\ md_files = <<>>
    /\ file_slug_by_md_rel = <<>>
    /\ idx = 0
    /\ lines = <<>>
    /\ i = 0
    /\ mermaid_idx = 0
    /\ out_lines = <<>>
    /\ mmdc_runs = <<>>
    /\ parts = <<>>
    /\ anchors = <<>>
    /\ combined_md = None
    /\ pandoc_runs = 0

\* die(msg): the diagnostic and sys.exit(2)
Die(msg) ==
    /\ pc' = "exit"
    /\ exit_code' = 2
    /\ stderr' = msg

\* is_markdown(start_path)
is_markdown(p) == p \in files \/ p = Outside

\* lines 361-365: --start names no markdown file
StartNotMarkdown ==
    /\ pc = "start"
    /\ ~is_markdown(start)
    /\ Die("--start must be a markdown file")
    /\ UNCHANGED <<inputs, md_files, file_slug_by_md_rel, idx, scan, mmdc_runs,
                   parts, anchors, combined_md, pandoc_runs>>

\* lines 370-372: the folder holds no markdown file
NoMarkdownFound ==
    /\ pc = "start"
    /\ is_markdown(start)
    /\ files = {}
    /\ Die("no markdown files found")
    /\ UNCHANGED <<inputs, md_files, file_slug_by_md_rel, idx, scan, mmdc_runs,
                   parts, anchors, combined_md, pandoc_runs>>

\* lines 370-374: rotate_start does not find the start file
StartNotFound ==
    /\ pc = "start"
    /\ is_markdown(start)
    /\ files # {}
    /\ start \notin files
    /\ \E fl \in find_all_markdowns(files) : md_files' = fl
    /\ Die("start file not found in folder scan")
    /\ UNCHANGED <<inputs, file_slug_by_md_rel, idx, scan, mmdc_runs,
                   parts, anchors, combined_md, pandoc_runs>>

\* lines 370-387: the files are found, ordered and rotated, and the slug table
\* is built
Discover ==
    /\ pc = "start"
    /\ is_markdown(start)
    /\ start \in files
    /\ \E fl \in find_all_markdowns(files) : md_files' = rotate_start(fl, start)
    /\ file_slug_by_md_rel' = [rel \in files |-> safe_file_slug(rel)]
    /\ idx' = 1
    /\ pc' = "read"
    /\ UNCHANGED <<inputs, exit_code, stderr, scan, mmdc_runs, parts, anchors,
                   combined_md, pandoc_runs>>

\* lines 389-398 and 69-72: the next file is read and render_mermaid_blocks
\* entered
ReadDoc ==
    /\ pc = "read"
    /\ idx <= Len(md_files)
    /\ lines' = content[md_files[idx]]
    /\ i' = 0
    /\ mermaid_idx' = 0
    /\ out_lines' = <<>>
    /\ pc' = "scan"
    /\ UNCHANGED <<inputs, exit_code, stderr, md_files, file_slug_by_md_rel, idx,
                   mmdc_runs, parts, anchors, combined_md, pandoc_runs>>

\* lines 180-181: a line outside a diagram is copied
ScanLine ==
    /\ pc = "scan"
    /\ i < Len(lines)
    /\ ~IsMermaidFence(lines[i + 1])
    /\ out_lines' = Append(out_lines, lines[i + 1])
    /\ i' = i + 1
    /\ UNCHANGED <<inputs, pc, exit_code, stderr, md_files, file_slug_by_md_rel,
                   idx, lines, mermaid_idx, mmdc_runs, parts, anchors,
                   combined_md, pandoc_runs>>

\* RunMmdc with a failed run ending the process
RunMmdcFatal(ok) ==
    LET close == ClosingFence(lines, i + 1)
        block == SubSeq(lines, i + 2, close - 1)
        stem == ArtifactStem(file_slug_by_md_rel[md_files[idx]], mermaid_idx,
                             mermaid_hash(block))
    IN  /\ pc = "scan"
        /\ i < Len(lines)
        /\ IsMermaidFence(lines[i + 1])
        /\ close # 0
        /\ i' = close
        /\ mmdc_runs' = Append(mmdc_runs, [file |-> md_files[idx],
                                           ordinal |-> mermaid_idx,
                                           stem |-> stem, ok |-> ok])
        /\ IF ok
           THEN /\ out_lines' = Append(out_lines, ImageLine(stem))
                /\ UNCHANGED <<pc, exit_code, stderr>>
           ELSE /\ out_lines' = out_lines
                /\ Die("mermaid diagram failed to render")
        /\ mermaid_idx' = mermaid_idx + 1
        /\ UNCHANGED <<inputs, md_files, file_slug_by_md_rel, idx, lines, parts,
                       anchors, combined_md, pandoc_runs>>

\* RunMmdc with the ordinal counted up after a successful run only
RunMmdcSkipCount(ok) ==
    LET close == ClosingFence(lines, i + 1)
        block == SubSeq(lines, i + 2, close - 1)
        stem == ArtifactStem(file_slug_by_md_rel[md_files[idx]], mermaid_idx,
                             mermaid_hash(block))
    IN  /\ pc = "scan"
        /\ i < Len(lines)
        /\ IsMermaidFence(lines[i + 1])
        /\ close # 0
        /\ i' = close
        /\ mmdc_runs' = Append(mmdc_runs, [file |-> md_files[idx],
                                           ordinal |-> mermaid_idx,
                                           stem |-> stem, ok |-> ok])
        /\ out_lines' = Append(out_lines, IF ok THEN ImageLine(stem) ELSE Placeholder)
        /\ mermaid_idx' = IF ok THEN mermaid_idx + 1 ELSE mermaid_idx
        /\ UNCHANGED <<inputs, pc, exit_code, stderr, md_files,
                       file_slug_by_md_rel, idx, lines, parts, anchors,
                       combined_md, pandoc_runs>>

\* lines 76-162: one closed diagram is written out and mmdc run on it
RunMmdc(ok) ==
    LET close == ClosingFence(lines, i + 1)
        block == SubSeq(lines, i + 2, close - 1)
        stem == ArtifactStem(file_slug_by_md_rel[md_files[idx]], mermaid_idx,
                             mermaid_hash(block))
    IN  /\ pc = "scan"
        /\ i < Len(lines)
        /\ IsMermaidFence(lines[i + 1])
        /\ close # 0
        /\ i' = close
        /\ mmdc_runs' = Append(mmdc_runs, [file |-> md_files[idx],
                                           ordinal |-> mermaid_idx,
                                           stem |-> stem, ok |-> ok])
        /\ out_lines' = Append(out_lines, IF ok THEN ImageLine(stem) ELSE Placeholder)
        /\ mermaid_idx' = mermaid_idx + 1
        /\ UNCHANGED <<inputs, pc, exit_code, stderr, md_files,
                       file_slug_by_md_rel, idx, lines, parts, anchors,
                       combined_md, pandoc_runs>>

\* lines 176-178: mmdc succeeded
DiagramRendered == RunMmdc(TRUE)

\* lines 163-174: mmdc failed
DiagramFailed == RunMmdc(FALSE)

\* Unterminated with the end of the text taken as the end of the diagram
UnterminatedTolerated ==
    /\ pc = "scan"
    /\ i < Len(lines)
    /\ IsMermaidFence(lines[i + 1])
    /\ ClosingFence(lines, i + 1) = 0
    /\ i' = Len(lines)
    /\ UNCHANGED <<inputs, pc, exit_code, stderr, md_files, file_slug_by_md_rel,
                   idx, lines, mermaid_idx, out_lines, mmdc_runs, parts, anchors,
                   combined_md, pandoc_runs>>

\* lines 82-83: the diagram is not closed
Unterminated ==
    /\ pc = "scan"
    /\ i < Len(lines)
    /\ IsMermaidFence(lines[i + 1])
    /\ ClosingFence(lines, i + 1) = 0
    /\ i' = Len(lines)
    /\ Die("unterminated mermaid block")
    /\ UNCHANGED <<inputs, md_files, file_slug_by_md_rel, idx, lines,
                   mermaid_idx, out_lines, mmdc_runs, parts, anchors,
                   combined_md, pandoc_runs>>

\* lines 183 and 406-416: render_mermaid_blocks returns, the headings get
\* their ids, the links are rewritten and the text joins parts
FinishDoc ==
    LET rel == md_files[idx]
        file_slug == file_slug_by_md_rel[rel]
        md_lines == SplitLines(out_lines)
        text == add_ids_and_rewrite_links(md_lines, file_slug,
                                          file_slug_by_md_rel, rel)
    IN  /\ pc = "scan"
        /\ i >= Len(lines)
        /\ parts' = IF idx > 1 THEN parts \o <<PageBreak, text>>
                               ELSE Append(parts, text)
        /\ anchors' = anchors \o EmittedIds(md_lines, file_slug)
        /\ idx' = idx + 1
        /\ pc' = "read"
        /\ UNCHANGED <<inputs, exit_code, stderr, md_files, file_slug_by_md_rel,
                       scan, mmdc_runs, combined_md, pandoc_runs>>

\* lines 418-457: combined.md is written and pandoc run on it
RunPandoc(ok) ==
    /\ pc = "read"
    /\ idx > Len(md_files)
    /\ combined_md' = JoinParts(parts)
    /\ pandoc_runs' = pandoc_runs + 1
    /\ IF ok
       THEN pc' = "done" /\ exit_code' = 0 /\ stderr' = stderr
       ELSE Die("pandoc failed")
    /\ UNCHANGED <<inputs, md_files, file_slug_by_md_rel, idx, scan, mmdc_runs,
                   parts, anchors>>

PandocSucceeded == RunPandoc(TRUE)

PandocFailed == RunPandoc(FALSE)

Next ==
    \/ StartNotMarkdown
    \/ NoMarkdownFound
    \/ StartNotFound
    \/ Discover
    \/ ReadDoc
    \/ ScanLine
    \/ DiagramRendered
    \/ DiagramFailed
    \/ Unterminated
    \/ FinishDoc
    \/ PandocSucceeded
    \/ PandocFailed

Spec == Init /\ [][Next]_vars

(***************************************************************************)
(* What the claims speak about                                             *)
(***************************************************************************)
Terminal == pc \in {"done", "exit"}

NoDuplicates(q) == \A a, b \in 1..Len(q) : a # b => q[a] # q[b]

\* the position of file f in md_files
PosOf(f) == CHOOSE k \in 1..Len(md_files) : md_files[k] = f

\* file f has gone through add_ids_and_rewrite_links and its text is in parts
Processed(f) == f \in Range(md_files) /\ PosOf(f) < idx

\* the text of file f in parts
PartOf(f) == parts[2 * PosOf(f) - 1]

NoDiagram(text) == \A k \in 1..Len(text) : ~IsMermaidFence(text[k])

\* line k of file f is a link, alone on its line, and the file has no
\* diagram, so that the line comes out as line k + 2 of the file's part
LinkAt(f, k) ==
    /\ NoDiagram(content[f])
    /\ k \in 1..Len(content[f])
    /\ LinkMatch(content[f][k]) = <<5, Len(content[f][k])>>

\* the target of that link as written, and after rewriting
TargetIn(f, k) == SubSeq(content[f][k], 7, Len(content[f][k]) - 1)
TargetOut(f, k) == SubSeq(PartOf(f)[k + 2], 7, Len(PartOf(f)[k + 2]) - 1)

\* the path-part and the fragment of a link target
PathPartOf(target) == Strip(split_link_target(Strip(target))[1])
FragmentOf(target) == split_link_target(Strip(target))[2]

\* the target is one the resolver looks up: no URL, and a markdown path
Candidate(target) ==
    /\ ~looks_like_url(Strip(target))
    /\ \/ EndsWith(ToLower(PathPartOf(target)), S_md)
       \/ EndsWith(ToLower(PathPartOf(target)), S_markdown)

\* "#<slug>" followed by "-<fragment alias>" when the target has a fragment
AnchorFor(slug, target) ==
    <<"#">> \o slug \o (IF FragmentOf(target) = <<>> THEN <<>>
                        ELSE <<"-">> \o slugify(FragmentOf(target)))

\* the files with the final filename component of path p
SameName(p) == {f \in files : PathName(f) = PathName(ReplaceChar(p, "\\", "/"))}

HasSeparator(p) == "/" \in Range(ReplaceChar(p, "\\", "/"))

(***************************************************************************)
(* C1                                                                      *)
(***************************************************************************)
\* C1: the anchor ids emitted so far, one per file and one per heading that
\* got an automatic id, are pairwise distinct.
C1_AnchorIdsDistinct == NoDuplicates(anchors)

(***************************************************************************)
(* C2                                                                      *)
(***************************************************************************)
Normalized(p) == ReplaceChar(p, "\\", "/")

\* path-part p, written in file a, names file b in one of the four ways of
\* the claim as it stands
NamesAsClaimed(p, b, a) ==
    \/ p = b
    \/ p = RelPath(b, a)
    \/ p = folder_name \o <<"/">> \o b
    \/ p = PathName(b) /\ SameName(b) = {b}

\* C2 as it stands: a link that names file b in one of the four ways comes
\* out as "#<slug of b>", with the fragment alias when it has a fragment,
\* whatever else the folder holds.
C2_EveryNamingResolves ==
    \A a \in files : Processed(a) =>
        \A k \in 1..Len(content[a]) : LinkAt(a, k) =>
            \A b \in files :
                NamesAsClaimed(PathPartOf(TargetIn(a, k)), b, a) =>
                    TargetOut(a, k) = AnchorFor(file_slug_by_md_rel[b], TargetIn(a, k))

\* the four ways, each with what it takes for the resolver to reach b: the
\* exact path; the path relative to a's directory when no other file has that
\* very path from the root; the path under the folder's name when no file has
\* that path from the root or from a's directory; any path that ends in a
\* separator and b's filename when no other file has that filename
NamesResolvably(p, b, a) ==
    \/ p = b
    \/ p = RelPath(b, a) /\ (p \in files => p = b)
    \/ /\ p = folder_name \o <<"/">> \o b
       /\ p \notin files
       /\ ResolvedRel(a, p) \notin files
    \/ EndsWith(Normalized(p), <<"/">> \o PathName(b)) /\ SameName(b) = {b}

\* C2, amended: a link that is no URL and names file b in one of the four
\* ways of NamesResolvably comes out as "#<slug of b>", with the fragment
\* alias when it has a fragment.
C2_NamingResolves ==
    \A a \in files : Processed(a) =>
        \A k \in 1..Len(content[a]) : LinkAt(a, k) =>
            \A b \in files :
                (/\ ~looks_like_url(Strip(TargetIn(a, k)))
                 /\ NamesResolvably(PathPartOf(TargetIn(a, k)), b, a)) =>
                    TargetOut(a, k) = AnchorFor(file_slug_by_md_rel[b], TargetIn(a, k))

\* a link to z/<filename of b>, where no file has that path, has come out as
\* the anchor of b, the only file of that name
C2_Witness ==
    \E a \in files : Processed(a) /\
        \E b \in files \ {a} :
            /\ LinkAt(a, 1)
            /\ PathPartOf(TargetIn(a, 1)) = <<"z", "/">> \o PathName(b)
            /\ SameName(b) = {b}
            /\ b # PathName(b)
            /\ TargetOut(a, 1) = <<"#">> \o file_slug_by_md_rel[b]

(***************************************************************************)
(* C3                                                                      *)
(***************************************************************************)
\* no file has path p from the root, nor, for a relative p, from the
\* directory of file a
NoFileAt(p, a) ==
    /\ Normalized(p) \notin files
    /\ IsAbsolute(p) \/ ResolvedRel(a, p) \notin files

\* C3 as it stands: a link to a path at which there is no file, from the root
\* or from the linking file's directory, comes out unchanged.
C3_NoFileUnchanged ==
    \A a \in files : Processed(a) =>
        \A k \in 1..Len(content[a]) :
            (LinkAt(a, k) /\ NoFileAt(PathPartOf(TargetIn(a, k)), a)) =>
                PartOf(a)[k + 2] = content[a][k]

\* the path without a leading "<folder name>/", when it has one
Unprefixed(p) ==
    IF StartsWith(Normalized(p), folder_name \o <<"/">>)
    THEN SubSeq(Normalized(p), Len(folder_name) + 2, Len(p))
    ELSE Normalized(p)

\* C3, amended: a link to a path at which there is no file, from the root
\* (with or without the folder's name in front) or from the linking file's
\* directory, and which has no separator or a filename that no file or more
\* than one file has, comes out unchanged.
C3_UnresolvedUnchanged ==
    \A a \in files : Processed(a) =>
        \A k \in 1..Len(content[a]) : LinkAt(a, k) =>
            LET p == PathPartOf(TargetIn(a, k))
            IN  (/\ NoFileAt(p, a)
                 /\ Unprefixed(p) \notin files
                 /\ ~HasSeparator(p) \/ Cardinality(SameName(p)) # 1) =>
                    PartOf(a)[k + 2] = content[a][k]

\* a link to a path with a separator at which there is no file, and whose
\* filename two files have, has come out unchanged
C3_Witness ==
    \E a \in files : Processed(a) /\ LinkAt(a, 1) /\
        LET p == PathPartOf(TargetIn(a, 1))
        IN  /\ Candidate(TargetIn(a, 1))
            /\ NoFileAt(p, a)
            /\ Unprefixed(p) \notin files
            /\ HasSeparator(p)
            /\ Cardinality(SameName(p)) = 2
            /\ PartOf(a)[3] = content[a][1]

(***************************************************************************)
(* C7                                                                      *)
(***************************************************************************)
\* what each strategy finds, on its own, for path-part p written in file a
Found(p, a) ==
    << Strategy1(file_slug_by_md_rel, Normalized(p)),
       Strategy2(file_slug_by_md_rel, a, p),
       Strategy3(file_slug_by_md_rel, Normalized(p)),
       Strategy4(file_slug_by_md_rel, Normalized(p)) >>

\* C7: the rewritten target carries the slug found by the lowest-numbered
\* strategy that finds a file; no later strategy overrides it.
C7_FirstStrategyWins ==
    \A a \in files : Processed(a) =>
        \A k \in 1..Len(content[a]) :
            (LinkAt(a, k) /\ Candidate(TargetIn(a, k))) =>
                LET found == Found(PathPartOf(TargetIn(a, k)), a)
                IN  \A m \in 1..4 :
                        (found[m] # None /\ \A j \in 1..(m - 1) : found[j] = None) =>
                            TargetOut(a, k) = AnchorFor(found[m], TargetIn(a, k))

\* strategies 1 and 2 find different files, and the link has come out with
\* the slug strategy 1 found
C7_Witness ==
    \E a \in files : Processed(a) /\ LinkAt(a, 1) /\ Candidate(TargetIn(a, 1)) /\
        LET found == Found(PathPartOf(TargetIn(a, 1)), a)
        IN  /\ found[1] # None
            /\ found[2] # None
            /\ found[1] # found[2]
            /\ TargetOut(a, 1) = <<"#">> \o found[1]

(***************************************************************************)
(* C8                                                                      *)
(***************************************************************************)
\* C8: when no file is at the path, from the root (with or without the
\* folder's name in front) or from the linking file's directory, and the path
\* has a separator, the link comes out with the slug of the one file that has
\* its filename, and unchanged when no file or more than one file has it.
C8_FilenameFallback ==
    \A a \in files : Processed(a) =>
        \A k \in 1..Len(content[a]) :
            LET p == PathPartOf(TargetIn(a, k))
            IN  (/\ LinkAt(a, k)
                 /\ Candidate(TargetIn(a, k))
                 /\ NoFileAt(p, a)
                 /\ Unprefixed(p) \notin files
                 /\ HasSeparator(p)) =>
                    IF Cardinality(SameName(p)) = 1
                    THEN \A b \in SameName(p) :
                            TargetOut(a, k) = AnchorFor(file_slug_by_md_rel[b],
                                                        TargetIn(a, k))
                    ELSE PartOf(a)[k + 2] = content[a][k]

\* an absolute path, at which there is no file and which only the filename
\* fallback resolves, has come out with the slug of the one file of that name
C8_Witness ==
    \E a \in files : Processed(a) /\ LinkAt(a, 1) /\
        LET p == PathPartOf(TargetIn(a, 1))
        IN  /\ IsAbsolute(p)
            /\ NoFileAt(p, a)
            /\ Cardinality(SameName(p)) = 1
            /\ \E b \in SameName(p) :
                  /\ b # a
                  /\ TargetOut(a, 1) = <<"#">> \o file_slug_by_md_rel[b]

(***************************************************************************)
(* C10                                                                     *)
(***************************************************************************)
\* line j of text is the first heading without an explicit id whose title
\* slugifies to s
FirstHeadingFor(text, j, s) ==
    LET Is(m) == /\ HeadingMatch(text[m]) # <<>>
                 /\ ~Contains(HeadingMatch(text[m])[2], <<"{", "#">>)
                 /\ slugify(HeadingMatch(text[m])[2]) = s
    IN  j \in 1..Len(text) /\ Is(j) /\ \A m \in 1..(j - 1) : ~Is(m)

\* C10: a link with a fragment that resolves to file b comes out as
\* "#<slug of b>-<slugify(fragment)>", and that is the id given to the first
\* heading of b whose title slugifies like the fragment, whichever of the two
\* files is processed first.
C10_FragmentLandsOnHeading ==
    \A a, b \in files : (Processed(a) /\ Processed(b)) =>
        \A k \in 1..Len(content[a]) :
            LET t == TargetIn(a, k)
                id == file_slug_by_md_rel[b] \o <<"-">> \o slugify(FragmentOf(t))
            IN  (/\ LinkAt(a, k)
                 /\ ~looks_like_url(Strip(t))
                 /\ NamesResolvably(PathPartOf(t), b, a)
                 /\ FragmentOf(t) # <<>>) =>
                    /\ TargetOut(a, k) = <<"#">> \o id
                    /\ \A j \in 1..Len(content[b]) :
                          (/\ NoDiagram(content[b])
                           /\ FirstHeadingFor(content[b], j, slugify(FragmentOf(t)))) =>
                              /\ EndsWith(PartOf(b)[j + 2],
                                          <<" ", "{", "#">> \o id \o <<"}">>)
                              /\ id \in Range(anchors)

\* a link with the fragment "Intro" was processed before the file it names,
\* whose first heading "Intro" has then got the id the link points at
C10_Witness ==
    \E a, b \in files :
        /\ Processed(a) /\ Processed(b) /\ PosOf(a) < PosOf(b)
        /\ LinkAt(a, 1)
        /\ TargetIn(a, 1) = b \o S_Intro
        /\ FirstHeadingFor(content[b], 1, <<"i", "n", "t", "r", "o">>)
        /\ PartOf(b)[3] = H_Intro \o <<" ", "{">> \o TargetOut(a, 1) \o <<"}">>

(***************************************************************************)
(* C4, C5, C9: diagrams                                                    *)
(***************************************************************************)
\* the text has a diagram opening fence with no closing fence after it
HasOpenDiagram(text) ==
    \E a \in 1..Len(text) :
        IsMermaidFence(text[a]) /\ \A b \in (a + 1)..Len(text) : ~IsFenceEnd(text[b])

\* the diagram blocks of a text, in order: the lines between an opening fence
\* and the next closing fence
RECURSIVE DiagramBlocks(_)
DiagramBlocks(text) ==
    IF text = <<>> THEN <<>>
    ELSE IF ~IsMermaidFence(Head(text)) THEN DiagramBlocks(Tail(text))
    ELSE LET c == ClosingFence(text, 1)
         IN  IF c = 0 THEN <<>>
             ELSE <<SubSeq(text, 2, c - 1)>>
                      \o DiagramBlocks(SubSeq(text, c + 1, Len(text)))

\* the mmdc runs on the diagrams of file f, in order
RunsOf(f) == SelectSeq(mmdc_runs, LAMBDA r : r.file = f)

\* a text whose diagrams are all closed, with every diagram block replaced by
\* the image of its run or, when the run failed, by the placeholder
RECURSIVE Replaced(_, _)
Replaced(text, runs) ==
    IF text = <<>> THEN <<>>
    ELSE IF ~IsMermaidFence(Head(text))
         THEN <<Head(text)>> \o Replaced(Tail(text), runs)
    ELSE IF runs = <<>> THEN <<"no run">>
    ELSE <<IF Head(runs).ok THEN ImageLine(Head(runs).stem) ELSE Placeholder>>
             \o Replaced(SubSeq(text, ClosingFence(text, 1) + 1, Len(text)), Tail(runs))

\* the folder can be scanned: StartNotFound or Discover, whose primed
\* conjuncts are assignments, can be taken
CanScan ==
    pc = "start" /\ is_markdown(start) /\ files # {} /\ find_all_markdowns(files) # {}

\* the run has not ended and can take a step (FinishDoc, whose primed
\* conjuncts are assignments, can be taken when its guard holds)
Continues ==
    ~Terminal =>
        \/ ENABLED (StartNotMarkdown \/ NoMarkdownFound)
        \/ CanScan
        \/ ENABLED (ReadDoc \/ PandocSucceeded \/ PandocFailed)
        \/ ENABLED (ScanLine \/ DiagramRendered \/ DiagramFailed \/ Unterminated)
        \/ pc = "scan" /\ i >= Len(lines)

\* C4: when render_mermaid_blocks returns, its output is the text with every
\* diagram block replaced, in place, by its image or, when its run failed, by
\* the placeholder, every other line unchanged and in order; each diagram has
\* had its run; no failed run ends the process, which goes on to the next
\* file and to pandoc.
C4_FailureIsLocal ==
    /\ (pc = "scan" /\ i >= Len(lines) /\ stderr = None) =>
          /\ out_lines = Replaced(lines, RunsOf(md_files[idx]))
          /\ Len(RunsOf(md_files[idx])) = Len(DiagramBlocks(lines))
    /\ pc = "exit" =>
          \/ stderr = "unterminated mermaid block" /\ HasOpenDiagram(lines)
          \/ stderr \in {"--start must be a markdown file", "no markdown files found",
                         "start file not found in folder scan", "pandoc failed"}
    /\ pc = "done" =>
          /\ Len(parts) = 2 * Cardinality(files) - 1
          /\ \A f \in files : Len(RunsOf(f)) = Len(DiagramBlocks(content[f]))
    /\ Continues

\* a file with two diagrams, whose first run failed and whose second run
\* succeeded, was followed by another file, and pandoc has run
C4_Witness ==
    /\ pc = "done"
    /\ pandoc_runs = 1
    /\ \E f \in files :
          /\ PosOf(f) = 1
          /\ Len(md_files) = 2
          /\ Len(RunsOf(f)) = 2
          /\ ~RunsOf(f)[1].ok
          /\ RunsOf(f)[2].ok
          /\ PartOf(f)[3] = Placeholder

\* C5: when a file has an open diagram, the process ends with a non-zero
\* status while scanning the first such file: no later file is processed,
\* combined.md is never written and pandoc never run; and the process never
\* dies of an unterminated diagram in a file whose diagrams are all closed.
C5_OpenDiagramAborts ==
    LET open == {k \in 1..Len(md_files) : HasOpenDiagram(content[md_files[k]])}
    IN  /\ (\E f \in files : HasOpenDiagram(content[f])) =>
              /\ pc # "done"
              /\ combined_md = None
              /\ pandoc_runs = 0
              /\ pc = "exit" => exit_code # 0
              /\ \A k \in open : idx <= k
              /\ (pc = "exit" /\ start \in files) =>
                    /\ stderr = "unterminated mermaid block"
                    /\ idx \in open
                    /\ Len(parts) = IF idx = 1 THEN 0 ELSE 2 * idx - 3
        /\ stderr = "unterminated mermaid block" =>
              /\ pc = "exit"
              /\ exit_code = 2
              /\ HasOpenDiagram(content[md_files[idx]])
        /\ Continues

\* the second of three files has an open diagram: the first file is in
\* parts, and the process has ended while scanning the second
C5_Witness ==
    /\ pc = "exit"
    /\ exit_code = 2
    /\ Len(md_files) = 3
    /\ idx = 2
    /\ ~HasOpenDiagram(content[md_files[1]])
    /\ HasOpenDiagram(content[md_files[2]])
    /\ Len(parts) = 1
    /\ pandoc_runs = 0

InOrder(q) ==
    \A a, b \in 1..Len(q) : a < b => ~LexLess(ToLower(q[b]), ToLower(q[a]))

\* r is q rotated so that it begins with the start file
RotatedToStart(q, r) ==
    \E k \in 1..Len(q) :
        q[k] = start /\ r = SubSeq(q, k, Len(q)) \o SubSeq(q, 1, k - 1)

NewPage == <<"\\", "n", "e", "w", "p", "a", "g", "e">>

IsMarker(line) ==
    line = NewPage \/ \E f \in files : line = AnchorLine(safe_file_slug(f))

\* the anchors of the files of q with a page break between each two
RECURSIVE Interleaved(_)
Interleaved(q) ==
    IF q = <<>> THEN <<>>
    ELSE IF Len(q) = 1 THEN <<AnchorLine(safe_file_slug(q[1]))>>
    ELSE <<AnchorLine(safe_file_slug(q[1])), NewPage>> \o Interleaved(Tail(q))

\* C6: combined.md holds every file once, in the case-insensitive order of
\* the paths rotated to begin at the start file, with a page break between
\* each two files and nowhere else; and with a start file that is not among
\* the files the process ends without any output.
C6_RotatedOrder ==
    /\ combined_md # None =>
          /\ \E q \in [1..Cardinality(files) -> files] :
                /\ Range(q) = files
                /\ InOrder(q)
                /\ RotatedToStart(q, md_files)
                /\ SelectSeq(combined_md, IsMarker) = Interleaved(md_files)
          /\ Len(SelectSeq(combined_md, LAMBDA l : l = NewPage)) = Cardinality(files) - 1
    /\ start \notin files =>
          /\ pc \in {"start", "exit"}
          /\ pc = "exit" => exit_code # 0
          /\ parts = <<>>
          /\ combined_md = None
          /\ pandoc_runs = 0
    /\ (pc = "start" /\ start \notin files) =>
          ENABLED (StartNotMarkdown \/ NoMarkdownFound) \/ CanScan

\* three files whose case-insensitive order is not the order of the code
\* points, started at the second: B.md, c.markdown, a.md
C6_Witness ==
    /\ pc = "done"
    /\ start = BigB_md
    /\ md_files = <<BigB_md, C_markdown, A_md>>
    /\ Len(SelectSeq(combined_md, LAMBDA l : l = NewPage)) = 2

=============================================================================
